---- MODULE Spec2Model ----
(***************************************************************************)
(* Model of the speech coordinator of AssistantApp: the useSpeech hook     *)
(* (src/hooks/useSpeech.ts), the recognizer and synthesizer it drives      *)
(* (expo-speech-recognition, expo-speech) and the events they deliver.     *)
(*                                                                         *)
(* One action per command, per event handler and per asynchronous          *)
(* continuation (permission promise, stop promise, clear timer).  Each     *)
(* action records what it was in lastOp and the external calls it made,   *)
(* in order, in out.                                                       *)
(***************************************************************************)
EXTENDS Integers, Sequences, FiniteSets, TLC

\* ---------------------------------------------------------------- bounds
\* A run holds at most MaxInputs commands and recognizer result or error
\* events; promise settlements, timers, synthesizer callbacks and the
\* recognizer's start and end events follow from them and are not counted.
MaxInputs == 5

\* ---------------------------------------------------------------- texts
\* A text is a sequence of characters; " " stands for white space.  The
\* texts given to speak and delivered by the recognizer: empty, white space
\* only, plain, and padded with white space on both sides.
Texts == {<<>>, <<" ">>, <<"a">>, <<" ", "a", " ">>}

RECURSIVE TrimLeft(_)
TrimLeft(s) ==
  IF s = <<>> THEN <<>>
  ELSE IF Head(s) = " " THEN TrimLeft(Tail(s)) ELSE s

RECURSIVE TrimRight(_)
TrimRight(s) ==
  IF s = <<>> THEN <<>>
  ELSE IF s[Len(s)] = " " THEN TrimRight(SubSeq(s, 1, Len(s) - 1)) ELSE s

\* String.prototype.trim
Trim(s) == TrimRight(TrimLeft(s))

IsBlankUntrimmed(text) == text = <<>>

\* `!text.trim()` : the text is empty after trimming
IsBlank(text) == Trim(text) = <<>>

\* `event.results[0]?.transcript || ''`
FirstTranscript(results) == IF Len(results) = 0 THEN <<>> ELSE results[1]

\* the results array of a result event: maxAlternatives is 1
ResultLists == {<<>>} \cup {<<t>> : t \in Texts}

\* the error codes the handler distinguishes
ErrorKinds == {"not-allowed", "no-speech"}

IsPermissionErrorNever(kind) == FALSE

\* `event.error === 'not-allowed'`
IsPermissionError(kind) == kind = "not-allowed"

PermissionDeniedNever(granted) == FALSE

\* `!result.granted`
PermissionDenied(granted) == ~granted

\* ---------------------------------------------------------------- state
VARIABLES
  phase,        \* "init" before the mount effect ran, "ready" after,
                \* "unmounted" once the owning screen is gone
  isListening, isSpeaking, isSupported, transcript, speechError,
  permPending,  \* startListening calls waiting on requestPermissionsAsync
  timers,       \* pending setTimeout(() => setSpeechError(false), 2000)
  rec,          \* recognizer: "off", "requested" (start() taken), "running"
  recStopped,   \* stop() was called on the recognizer's current session
  resultCalls,  \* onSpeechResult invocations of the open session
  utter,        \* synthesizer queue: "queued", "playing" or "stopped"
  stopPending,  \* ExpoSpeech.stop() promises not yet settled
  inputs,       \* commands and recognizer results/errors so far
  lastOp,       \* the action taken last
  out,          \* the external calls the last action made, in order
  isLoading,    \* VoiceChatScreen: the isLoading state
  shownLoading, \* VoiceChatScreen: isLoading as of the last render
  queries,      \* VoiceChatScreen: assistantAPI.query calls in flight
  messages      \* VoiceChatScreen: length of the messages list

vars == <<phase, isListening, isSpeaking, isSupported, transcript,
          speechError, permPending, timers, rec, recStopped, resultCalls,
          utter, stopPending, inputs, lastOp, out,
          isLoading, shownLoading, queries, messages>>

\* what the hook holds and what its devices hold
hook == <<phase, isListening, isSpeaking, isSupported, transcript,
          speechError, permPending, timers, rec, recStopped, resultCalls,
          utter, stopPending>>

\* what VoiceChatScreen holds
screen == <<isLoading, shownLoading, queries, messages>>

Op(name, text, flag, kind) ==
  [op |-> name, text |-> text, flag |-> flag, kind |-> kind]

\* a counted step, and one that is not counted
Input == inputs < MaxInputs /\ inputs' = inputs + 1

Free == UNCHANGED inputs

Eff(call, arg) == [call |-> call, arg |-> arg]

Called(o, call) == \E i \in 1..Len(o) : o[i].call = call

CountCalls(o, call) == Cardinality({i \in 1..Len(o) : o[i].call = call})

\* useState initial values (useSpeech.ts lines 32-36, VoiceChatScreen
\* lines 1037-1038); nothing is in flight
Init ==
  /\ phase = "init"
  /\ isListening = FALSE
  /\ isSpeaking = FALSE
  /\ isSupported = FALSE
  /\ transcript = <<>>
  /\ speechError = FALSE
  /\ permPending = 0
  /\ timers = 0
  /\ rec = "off"
  /\ recStopped = FALSE
  /\ resultCalls = 0
  /\ utter = <<>>
  /\ stopPending = 0
  /\ inputs = 0
  /\ lastOp = Op("Mount", <<>>, FALSE, "")
  /\ out = <<>>
  /\ isLoading = FALSE
  /\ shownLoading = FALSE
  /\ queries = 0
  /\ messages = 0

\* the mount effect: isRecognitionAvailable() returns available or throws
InitializeSpeech(available, throws) ==
  /\ phase = "init"
  /\ phase' = "ready"
  /\ isSupported' = IF throws THEN FALSE ELSE available
  /\ Free
  /\ lastOp' = Op("InitializeSpeech", <<>>, FALSE, "")
  /\ out' = <<>>
  /\ UNCHANGED <<isListening, isSpeaking, transcript, speechError,
                 permPending, timers, rec, recStopped, resultCalls, utter,
                 stopPending>>

\* ------------------------------------------------- recognizer (device)
\* ExpoSpeechRecognitionModule.start(): opens a session; a start() issued
\* while a session is open either restarts it or is ignored by the device
RecognizerStart(restart) ==
  IF rec = "off" \/ restart
  THEN rec' = "requested" /\ recStopped' = FALSE /\ resultCalls' = 0
  ELSE UNCHANGED <<rec, recStopped, resultCalls>>

\* ExpoSpeechRecognitionModule.stop(): asks the open session to finish;
\* the device may still deliver what it has heard, then ends the session
RecognizerStop ==
  /\ recStopped' = (recStopped \/ rec # "off")
  /\ UNCHANGED <<rec, resultCalls>>

\* ------------------------------------------------ synthesizer (device)
\* ExpoSpeech.speak(): the utterance joins the device queue
SynthSpeak == utter' = Append(utter, "queued")

\* ExpoSpeech.stop(): every utterance of the queue is cancelled; each one's
\* onStopped callback is delivered later
SynthStop == utter' = [i \in 1..Len(utter) |-> "stopped"]

Live(u) == SelectSeq(u, LAMBDA x : x # "stopped")

FirstLive(u) ==
  IF \E i \in 1..Len(u) : u[i] # "stopped"
  THEN CHOOSE i \in 1..Len(u) :
         /\ u[i] # "stopped"
         /\ \A j \in 1..(i - 1) : u[j] = "stopped"
  ELSE 0

RemoveAt(u, i) == SubSeq(u, 1, i - 1) \o SubSeq(u, i + 1, Len(u))

\* ------------------------------------------------------------ commands
StopListeningBodyWaits ==
  IF isListening
  THEN /\ UNCHANGED isListening
       /\ RecognizerStop
  ELSE UNCHANGED <<isListening, rec, recStopped, resultCalls>>

StopListeningBodyAlways ==
  /\ isListening' = FALSE
  /\ RecognizerStop

\* stopListening (lines 140-145), as a command and as called at line 111
StopListeningBody ==
  IF isListening
  THEN /\ isListening' = FALSE
       /\ RecognizerStop
  ELSE UNCHANGED <<isListening, rec, recStopped, resultCalls>>

StopListeningCalls ==
  IF isListening THEN <<Eff("rec.stop", <<>>)>> ELSE <<>>

StopListening ==
  /\ phase = "ready"
  /\ StopListeningBody
  /\ Input
  /\ lastOp' = Op("StopListening", <<>>, FALSE, "")
  /\ out' = StopListeningCalls
  /\ UNCHANGED <<phase, isSpeaking, isSupported, transcript, speechError,
                 permPending, timers, utter, stopPending>>

StartListeningOptimistic ==
  /\ phase = "ready"
  /\ IF ~isSupported
     THEN /\ out' = <<Eff("Alert.NotSupported", <<>>)>>
          /\ UNCHANGED <<isListening, rec, recStopped, resultCalls,
                         permPending>>
     ELSE /\ isListening' = TRUE
          /\ IF isListening
             THEN RecognizerStop
             ELSE UNCHANGED <<rec, recStopped, resultCalls>>
          /\ permPending' = permPending + 1
          /\ out' = StopListeningCalls \o
                      <<Eff("rec.requestPermissions", <<>>)>>
  /\ Input
  /\ lastOp' = Op("StartListening", <<>>, FALSE, "")
  /\ UNCHANGED <<phase, isSpeaking, isSupported, transcript, speechError,
                 timers, utter, stopPending>>

StartListeningUnchecked ==
  /\ phase = "ready"
  /\ StopListeningBody
  /\ permPending' = permPending + 1
  /\ out' = StopListeningCalls \o <<Eff("rec.requestPermissions", <<>>)>>
  /\ Input
  /\ lastOp' = Op("StartListening", <<>>, FALSE, "")
  /\ UNCHANGED <<phase, isSpeaking, isSupported, transcript, speechError,
                 timers, utter, stopPending>>

\* startListening up to its await (lines 104-115)
StartListening ==
  /\ phase = "ready"
  /\ IF ~isSupported
     THEN /\ out' = <<Eff("Alert.NotSupported", <<>>)>>
          /\ UNCHANGED <<isListening, rec, recStopped, resultCalls,
                         permPending>>
     ELSE /\ StopListeningBody
          /\ permPending' = permPending + 1
          /\ out' = StopListeningCalls \o
                      <<Eff("rec.requestPermissions", <<>>)>>
  /\ Input
  /\ lastOp' = Op("StartListening", <<>>, FALSE, "")
  /\ UNCHANGED <<phase, isSpeaking, isSupported, transcript, speechError,
                 timers, utter, stopPending>>

\* startListening after its await (lines 115-137): the permission promise
\* rejects or resolves with granted; then start() is taken by the device
\* ("ok"), restarts an open session ("restart") or throws ("throws").  The
\* promise also settles after the screen is gone.
PermissionSettle(settled, granted, start) ==
  /\ phase # "init"
  /\ permPending > 0
  /\ (settled = "rejected" \/ ~granted) => start = "ok"
  /\ settled = "rejected" => ~granted
  /\ start = "restart" => rec # "off"
  /\ permPending' = permPending - 1
  /\ IF settled = "rejected"
     THEN /\ out' = <<Eff("Alert.Error", <<>>)>>
          /\ UNCHANGED <<rec, recStopped, resultCalls>>
     ELSE IF PermissionDenied(granted)
     THEN /\ out' = <<Eff("Alert.PermissionRequired", <<>>)>>
          /\ UNCHANGED <<rec, recStopped, resultCalls>>
     ELSE IF start = "throws"
     THEN /\ out' = <<Eff("rec.start", <<>>), Eff("Alert.Error", <<>>)>>
          /\ UNCHANGED <<rec, recStopped, resultCalls>>
     ELSE /\ out' = <<Eff("rec.start", <<>>)>>
          /\ RecognizerStart(start = "restart")
  /\ Free
  /\ lastOp' = Op("PermissionSettle", <<>>, granted, settled)
  /\ UNCHANGED <<phase, isListening, isSpeaking, isSupported, transcript,
                 speechError, timers, utter, stopPending>>

\* speak (lines 147-168); ExpoSpeech.speak may throw
Speak(text, throws) ==
  /\ phase = "ready"
  /\ IF IsBlank(text)
     THEN /\ out' = <<>>
          /\ UNCHANGED <<isSpeaking, utter>>
     ELSE /\ out' = <<Eff("synth.speak", text)>>
          /\ IF throws
             THEN isSpeaking' = FALSE /\ UNCHANGED utter
             ELSE isSpeaking' = TRUE /\ SynthSpeak
  /\ Input
  /\ lastOp' = Op("Speak", text, throws /\ ~IsBlank(text), "")
  /\ UNCHANGED <<phase, isListening, isSupported, transcript, speechError,
                 permPending, timers, rec, recStopped, resultCalls,
                 stopPending>>

\* stopSpeaking up to its await (lines 170-172)
StopSpeaking ==
  /\ phase = "ready"
  /\ stopPending' = stopPending + 1
  /\ SynthStop
  /\ Input
  /\ lastOp' = Op("StopSpeaking", <<>>, FALSE, "")
  /\ out' = <<Eff("synth.stop", <<>>)>>
  /\ UNCHANGED <<phase, isListening, isSpeaking, isSupported, transcript,
                 speechError, permPending, timers, rec, recStopped,
                 resultCalls>>

\* stopSpeaking after its await (lines 173-176)
StopSettle(resolved) ==
  /\ phase # "init"
  /\ stopPending > 0
  /\ stopPending' = stopPending - 1
  /\ isSpeaking' = IF resolved THEN FALSE ELSE isSpeaking
  /\ Free
  /\ lastOp' = Op("StopSettle", <<>>, resolved, "")
  /\ out' = <<>>
  /\ UNCHANGED <<phase, isListening, isSupported, transcript, speechError,
                 permPending, timers, rec, recStopped, resultCalls, utter>>

\* ---------------------------------------------------- recognizer events
\* 'start' handler (lines 66-70); a start event can still be delivered for
\* a session that stop() was already called on
RecStart ==
  /\ phase = "ready"
  /\ rec = "requested"
  /\ rec' = "running"
  /\ isListening' = TRUE
  /\ Free
  /\ lastOp' = Op("RecStart", <<>>, FALSE, "")
  /\ out' = <<Eff("onSpeechStart", <<>>)>>
  /\ UNCHANGED <<phase, isSpeaking, isSupported, transcript, speechError,
                 permPending, timers, recStopped, resultCalls, utter,
                 stopPending>>

RecEndEmits ==
  /\ phase = "ready"
  /\ rec = "running" \/ (rec = "requested" /\ recStopped)
  /\ rec' = "off"
  /\ recStopped' = FALSE
  /\ isListening' = FALSE
  /\ Free
  /\ lastOp' = Op("RecEnd", <<>>, FALSE, "")
  /\ resultCalls' = 0
  /\ out' = IF IsBlank(transcript)
            THEN <<Eff("onSpeechEnd", <<>>)>>
            ELSE <<Eff("onSpeechEnd", <<>>),
                   Eff("onSpeechResult", transcript)>>
  /\ UNCHANGED <<phase, isSpeaking, isSupported, transcript, speechError,
                 permPending, timers, utter, stopPending>>

\* 'end' handler (lines 72-76)
RecEnd ==
  /\ phase = "ready"
  /\ rec = "running" \/ (rec = "requested" /\ recStopped)
  /\ rec' = "off"
  /\ recStopped' = FALSE
  /\ isListening' = FALSE
  /\ Free
  /\ lastOp' = Op("RecEnd", <<>>, FALSE, "")
  /\ resultCalls' = 0
  /\ out' = <<Eff("onSpeechEnd", <<>>)>>
  /\ UNCHANGED <<phase, isSpeaking, isSupported, transcript, speechError,
                 permPending, timers, utter, stopPending>>

RecResultIfListening(results, isFinal) ==
  LET result == FirstTranscript(results)
      emits == isListening /\ isFinal /\ ~IsBlank(result)
  IN /\ phase = "ready"
     /\ rec = "running"
     /\ transcript' = IF isListening THEN result ELSE transcript
     /\ resultCalls' = IF emits THEN resultCalls + 1 ELSE resultCalls
     /\ out' = IF emits THEN <<Eff("onSpeechResult", result)>> ELSE <<>>
     /\ Input
     /\ lastOp' = Op("RecResult", result, isFinal, "")
     /\ UNCHANGED <<phase, isListening, isSpeaking, isSupported,
                    speechError, permPending, timers, rec, recStopped,
                    utter, stopPending>>

RecResultAlways(results, isFinal) ==
  LET result == FirstTranscript(results)
      emits == ~IsBlank(result)
  IN /\ phase = "ready"
     /\ rec = "running"
     /\ transcript' = result
     /\ resultCalls' = IF emits THEN resultCalls + 1 ELSE resultCalls
     /\ out' = IF emits THEN <<Eff("onSpeechResult", result)>> ELSE <<>>
     /\ Input
     /\ lastOp' = Op("RecResult", result, isFinal, "")
     /\ UNCHANGED <<phase, isListening, isSpeaking, isSupported,
                    speechError, permPending, timers, rec, recStopped,
                    utter, stopPending>>

\* 'result' handler (lines 78-85)
RecResult(results, isFinal) ==
  LET result == FirstTranscript(results)
      emits == isFinal /\ ~IsBlank(result)
  IN /\ phase = "ready"
     /\ rec = "running"
     /\ transcript' = result
     /\ resultCalls' = IF emits THEN resultCalls + 1 ELSE resultCalls
     /\ out' = IF emits THEN <<Eff("onSpeechResult", result)>> ELSE <<>>
     /\ Input
     /\ lastOp' = Op("RecResult", result, isFinal, "")
     /\ UNCHANGED <<phase, isListening, isSpeaking, isSupported,
                    speechError, permPending, timers, rec, recStopped,
                    utter, stopPending>>

RecErrorNoTimer(kind, ends) ==
  /\ phase = "ready"
  /\ rec # "off"
  /\ rec' = IF ends THEN "off" ELSE rec
  /\ recStopped' = IF ends THEN FALSE ELSE recStopped
  /\ resultCalls' = IF ends THEN 0 ELSE resultCalls
  /\ isListening' = FALSE
  /\ IF IsPermissionError(kind)
     THEN /\ out' = <<Eff("onSpeechEnd", <<>>),
                      Eff("Alert.PermissionRequired", <<>>)>>
          /\ UNCHANGED speechError
     ELSE /\ speechError' = TRUE
          /\ out' = <<Eff("onSpeechEnd", <<>>)>>
  /\ Input
  /\ lastOp' = Op("RecError", <<>>, ends, kind)
  /\ UNCHANGED <<phase, isSpeaking, isSupported, transcript, permPending,
                 timers, utter, stopPending>>

\* 'error' handler (lines 87-102); the device closes the session with the
\* error (ends) or keeps it open
RecError(kind, ends) ==
  /\ phase = "ready"
  /\ rec # "off"
  /\ rec' = IF ends THEN "off" ELSE rec
  /\ recStopped' = IF ends THEN FALSE ELSE recStopped
  /\ resultCalls' = IF ends THEN 0 ELSE resultCalls
  /\ isListening' = FALSE
  /\ IF IsPermissionError(kind)
     THEN /\ out' = <<Eff("onSpeechEnd", <<>>),
                      Eff("Alert.PermissionRequired", <<>>)>>
          /\ UNCHANGED <<speechError, timers>>
     ELSE /\ speechError' = TRUE
          /\ timers' = timers + 1
          /\ out' = <<Eff("onSpeechEnd", <<>>), Eff("setTimeout", <<>>)>>
  /\ Input
  /\ lastOp' = Op("RecError", <<>>, ends, kind)
  /\ UNCHANGED <<phase, isSpeaking, isSupported, transcript, permPending,
                 utter, stopPending>>

TimerFireKeeps ==
  /\ timers > 0
  /\ timers' = timers - 1
  /\ Free
  /\ lastOp' = Op("TimerFire", <<>>, speechError, "")
  /\ out' = <<>>
  /\ UNCHANGED <<phase, isListening, isSpeaking, isSupported, transcript,
                 speechError, permPending, rec, recStopped, resultCalls,
                 utter, stopPending>>

TimerFireRetries ==
  /\ timers > 0
  /\ timers' = timers - 1
  /\ speechError' = FALSE
  /\ RecognizerStart(FALSE)
  /\ Free
  /\ lastOp' = Op("TimerFire", <<>>, speechError, "")
  /\ out' = <<Eff("rec.start", <<>>)>>
  /\ UNCHANGED <<phase, isListening, isSpeaking, isSupported, transcript,
                 permPending, utter, stopPending>>

\* the timer callback of line 100
TimerFire ==
  /\ timers > 0
  /\ timers' = timers - 1
  /\ speechError' = FALSE
  /\ Free
  /\ lastOp' = Op("TimerFire", <<>>, speechError, "")
  /\ out' = <<>>
  /\ UNCHANGED <<phase, isListening, isSpeaking, isSupported, transcript,
                 permPending, rec, recStopped, resultCalls, utter,
                 stopPending>>

\* --------------------------------------------------- synthesizer events
SynthFrame ==
  UNCHANGED <<phase, isListening, isSupported, transcript, speechError,
              permPending, timers, rec, recStopped, resultCalls,
              stopPending, inputs>>

\* onStart (line 156): the first utterance not cancelled begins to play
SynthOnStart ==
  /\ FirstLive(utter) # 0
  /\ utter[FirstLive(utter)] = "queued"
  /\ utter' = [utter EXCEPT ![FirstLive(utter)] = "playing"]
  /\ isSpeaking' = TRUE
  /\ lastOp' = Op("SynthOnStart", <<>>, FALSE, "")
  /\ out' = <<>>
  /\ SynthFrame

\* onDone (line 157): the playing utterance finishes
SynthOnDone ==
  /\ FirstLive(utter) # 0
  /\ utter[FirstLive(utter)] = "playing"
  /\ utter' = RemoveAt(utter, FirstLive(utter))
  /\ isSpeaking' = FALSE
  /\ lastOp' = Op("SynthOnDone", <<>>, FALSE, "")
  /\ out' = <<>>
  /\ SynthFrame

\* onError (lines 159-162): the first utterance not cancelled fails
SynthOnError ==
  /\ FirstLive(utter) # 0
  /\ utter' = RemoveAt(utter, FirstLive(utter))
  /\ isSpeaking' = FALSE
  /\ lastOp' = Op("SynthOnError", <<>>, FALSE, "")
  /\ out' = <<>>
  /\ SynthFrame

\* onStopped (line 158): a cancelled utterance reports back
SynthOnStopped ==
  /\ Len(utter) > 0
  /\ utter[1] = "stopped"
  /\ utter' = Tail(utter)
  /\ isSpeaking' = FALSE
  /\ lastOp' = Op("SynthOnStopped", <<>>, FALSE, "")
  /\ out' = <<>>
  /\ SynthFrame

\* ---------------------------------------------------------------- unmount
\* The cleanup of the mount effect (lines 38-49).  The effect has no
\* dependencies, so the cleanup reads the isListening and isSpeaking of the
\* first render (lines 32-33), whatever their value is by now.  The
\* recognizer event subscriptions end with the component; promises, timers
\* and utterance callbacks already handed out still run.
Unmount ==
  LET listeningSeen == FALSE
      speakingSeen == FALSE
  IN /\ phase = "ready"
     /\ phase' = "unmounted"
     /\ IF listeningSeen
        THEN StopListeningBody
        ELSE UNCHANGED <<isListening, rec, recStopped, resultCalls>>
     /\ IF speakingSeen
        THEN stopPending' = stopPending + 1 /\ SynthStop
        ELSE UNCHANGED <<stopPending, utter>>
     /\ out' = (IF listeningSeen THEN StopListeningCalls ELSE <<>>) \o
               (IF speakingSeen THEN <<Eff("synth.stop", <<>>)>> ELSE <<>>)
     /\ Free
     /\ lastOp' = Op("Unmount", <<>>, FALSE, "")
     /\ UNCHANGED <<isSpeaking, isSupported, transcript, speechError,
                    permPending, timers>>

\* -------------------------------------------------------- specification
Next ==
  \/ \E available \in BOOLEAN, throws \in BOOLEAN :
       InitializeSpeech(available, throws)
  \/ StartListening
  \/ \E settled \in {"resolved", "rejected"}, granted \in BOOLEAN,
        start \in {"ok", "restart", "throws"} :
       PermissionSettle(settled, granted, start)
  \/ StopListening
  \/ \E text \in Texts, throws \in BOOLEAN : Speak(text, throws)
  \/ StopSpeaking
  \/ \E resolved \in BOOLEAN : StopSettle(resolved)
  \/ RecStart
  \/ RecEnd
  \/ \E results \in ResultLists, isFinal \in BOOLEAN :
       RecResult(results, isFinal)
  \/ \E kind \in ErrorKinds, ends \in BOOLEAN : RecError(kind, ends)
  \/ TimerFire
  \/ SynthOnStart
  \/ SynthOnDone
  \/ SynthOnError
  \/ SynthOnStopped
  \/ Unmount

\* the hook on its own: the screen that owns it stays as it is
Spec == Init /\ [][Next /\ UNCHANGED screen]_vars

\* a timer that was set does fire: setTimeout always runs its callback
FairSpec == Spec /\ WF_vars(TimerFire /\ UNCHANGED screen)

\* ------------------------------------------------------- VoiceChatScreen
\* handleSpeechResult up to its await (lines 1079-1096).  SpeechManager, and
\* with it the hook that calls the handler, is rendered only while the
\* last render saw isLoading false (lines 1212-1219); the handler is the
\* closure of that render, so the isLoading it tests is that render's.
HandleSpeechResult(text) ==
  /\ ~shownLoading
  /\ IF IsBlank(text) \/ shownLoading
     THEN /\ out' = <<>>
          /\ UNCHANGED <<isLoading, queries, messages>>
     ELSE /\ messages' = messages + 1
          /\ isLoading' = TRUE
          /\ queries' = queries + 1
          /\ out' = <<Eff("api.query", Trim(text))>>
  /\ Input
  /\ lastOp' = Op("HandleSpeechResult", text, FALSE, "")
  /\ UNCHANGED shownLoading
  /\ UNCHANGED hook

\* React renders the screen again after a state change
Render ==
  /\ shownLoading # isLoading
  /\ shownLoading' = isLoading
  /\ Free
  /\ lastOp' = Op("Render", <<>>, isLoading, "")
  /\ out' = <<>>
  /\ UNCHANGED <<isLoading, queries, messages>>
  /\ UNCHANGED hook

\* handleSpeechResult after its await (lines 1097-1140): the query resolves
\* or rejects; the reply or the error text is appended and, with speech
\* enabled, spoken; a speak that throws inside the try lands in the catch;
\* the finally clears isLoading
QuerySettle(resolved, speechEnabled, speakThrows) ==
  /\ queries > 0
  /\ speakThrows => (resolved /\ speechEnabled)
  /\ queries' = queries - 1
  /\ messages' = messages + (IF speakThrows THEN 2 ELSE 1)
  /\ out' = IF ~speechEnabled THEN <<>>
            ELSE IF speakThrows
            THEN <<Eff("synth.speak", <<>>), Eff("synth.speak", <<>>)>>
            ELSE <<Eff("synth.speak", <<>>)>>
  /\ isLoading' = FALSE
  /\ Free
  /\ lastOp' = Op("QuerySettle", <<>>, resolved, "")
  /\ UNCHANGED shownLoading
  /\ UNCHANGED hook

ScreenNext ==
  \/ \E text \in Texts : HandleSpeechResult(text)
  \/ Render
  \/ \E resolved \in BOOLEAN, speechEnabled \in BOOLEAN,
        speakThrows \in BOOLEAN :
       QuerySettle(resolved, speechEnabled, speakThrows)

\* the screen on its own, driven by the transcripts handed to its handler
ScreenSpec == Init /\ [][ScreenNext]_vars

TypeOK ==
  /\ phase \in {"init", "ready", "unmounted"}
  /\ isListening \in BOOLEAN /\ isSpeaking \in BOOLEAN
  /\ isSupported \in BOOLEAN /\ speechError \in BOOLEAN
  /\ transcript \in Texts
  /\ permPending \in 0..MaxInputs
  /\ timers \in 0..MaxInputs
  /\ rec \in {"off", "requested", "running"}
  /\ recStopped \in BOOLEAN
  /\ resultCalls \in 0..MaxInputs
  /\ Len(utter) <= MaxInputs
  /\ stopPending \in 0..MaxInputs
  /\ inputs \in 0..MaxInputs
  /\ isLoading \in BOOLEAN /\ shownLoading \in BOOLEAN
  /\ queries \in 0..MaxInputs
  /\ messages \in 0..(3 * MaxInputs)

\* ================================================================ claims
OnlyWhitespace(t) == \A i \in 1..Len(t) : t[i] = " "

HasText(t) == ~OnlyWhitespace(t)

\* C1: listening and speaking are never active at the same time:
\* isListening and isSpeaking are never both true.
C1_MutualExclusion == ~(isListening /\ isSpeaking)

C3_SpeakRejectedWhileListening ==
  [][(isListening /\ ~isSpeaking
        /\ lastOp'.op = "Speak" /\ HasText(lastOp'.text))
     => (isListening' /\ ~isSpeaking' /\ ~Called(out', "synth.speak"))]_vars

\* C4: a new speak stops the utterance in flight before it starts its own,
\* so at most one utterance is ever in flight on the synthesizer.
C4_AtMostOneUtterance == Len(Live(utter)) <= 1

\* C5: speak(text) with empty or white-space-only text changes no state
\* and never calls the synthesizer.
C5_EmptySpeakNoOp ==
  [][(lastOp'.op = "Speak" /\ OnlyWhitespace(lastOp'.text))
     => /\ UNCHANGED <<isSpeaking, isListening, transcript, speechError>>
        /\ UNCHANGED <<utter, rec, recStopped, permPending, timers>>
        /\ out' = <<>>]_vars

C5_Witness ==
  /\ lastOp.op = "Speak"
  /\ Len(lastOp.text) > 0 /\ OnlyWhitespace(lastOp.text)
  /\ ~isSpeaking /\ utter = <<>> /\ out = <<>>

\* C6: when the permission request of a startListening() resolves with
\* granted = false, the mode stays as it was (Idle stays Idle), the
\* permission prompt is shown exactly once and the recognizer's start is
\* not called.
C6_PermissionDenied ==
  [][(lastOp'.op = "PermissionSettle" /\ lastOp'.kind = "resolved"
        /\ ~lastOp'.flag)
     => /\ UNCHANGED <<isListening, isSpeaking, rec, recStopped>>
        /\ CountCalls(out', "Alert.PermissionRequired") = 1
        /\ ~Called(out', "rec.start")]_vars

C6_Witness ==
  /\ lastOp.op = "PermissionSettle" /\ lastOp.kind = "resolved"
  /\ ~lastOp.flag
  /\ ~isListening /\ ~isSpeaking /\ rec = "off" /\ permPending = 0
  /\ out = <<Eff("Alert.PermissionRequired", <<>>)>>

\* C7: while listening, a non-empty final result sets transcript to its
\* text, invokes onSpeechResult with it and sets isListening to false in
\* that same step, with no further recognizer event.
C7_FinalResultEndsSession ==
  [][(isListening /\ lastOp'.op = "RecResult" /\ lastOp'.flag
        /\ HasText(lastOp'.text))
     => /\ transcript' = lastOp'.text
        /\ out' = <<Eff("onSpeechResult", lastOp'.text)>>
        /\ ~isListening']_vars

\* C8: onSpeechResult is invoked at most once in a recognizer session,
\* whatever number of result events the session delivers.
C8_ResultOncePerSession == resultCalls <= 1

\* C9: a recognizer error that is not permission-denied sets speechError
\* at once, and speechError then becomes false by the clear timer alone.
C9_ErrorAutoClear ==
  /\ [][(lastOp'.op = "RecError" /\ lastOp'.kind # "not-allowed")
        => speechError']_vars
  /\ [][(lastOp'.op = "TimerFire") => ~speechError']_vars
  /\ (speechError ~> ~speechError)

C9_Witness ==
  /\ lastOp.op = "TimerFire" /\ lastOp.flag
  /\ ~speechError

\* C10: every recognizer error sets isListening to false; a 'not-allowed'
\* error shows the permission prompt and leaves speechError alone, any
\* other error sets speechError and shows no prompt.
C10_RecognizerErrorHandling ==
  [][(lastOp'.op = "RecError")
     => /\ ~isListening'
        /\ IF lastOp'.kind = "not-allowed"
           THEN /\ CountCalls(out', "Alert.PermissionRequired") = 1
                /\ UNCHANGED <<speechError, timers>>
           ELSE /\ speechError'
                /\ timers' = timers + 1
                /\ ~Called(out', "Alert.PermissionRequired")]_vars

C10_Witness ==
  /\ lastOp.op = "RecError" /\ lastOp.kind = "not-allowed"
  /\ ~isListening /\ ~speechError /\ timers = 0
  /\ Called(out, "Alert.PermissionRequired")

\* What the hook holds and what its devices hold: everything but the
\* observation variables inputs, lastOp and out
hookState == hook

\* a call to the permission dialog, the recognizer or the synthesizer
DeviceCall(o) ==
  \E i \in 1..Len(o) :
    o[i].call \in {"rec.requestPermissions", "rec.start", "rec.stop",
                   "synth.speak", "synth.stop"}

\* C11: stopListening() called while listening asks the recognizer to stop
\* and sets isListening to false in that same step, before any end event.
C11_OptimisticStopListening ==
  [][(isListening /\ lastOp'.op = "StopListening")
     => /\ ~isListening'
        /\ Called(out', "rec.stop")
        /\ rec' = rec]_vars

\* stopListening() has acted on an open session whose end event has not
\* been delivered
C11_Witness ==
  /\ lastOp.op = "StopListening"
  /\ Called(out, "rec.stop")
  /\ ~isListening
  /\ rec = "running"

\* C12: stopSpeaking() called while speaking asks the synthesizer to stop
\* and sets isSpeaking to false in that same step, before stop() settles.
C12_OptimisticStopSpeaking ==
  [][(isSpeaking /\ lastOp'.op = "StopSpeaking")
     => /\ Called(out', "synth.stop")
        /\ ~isSpeaking']_vars

\* C13: stopListening() called while not listening makes no recognizer
\* request and changes no state; a second call in a row changes nothing.
C13_StopListeningIdempotent ==
  /\ [][(~isListening /\ lastOp'.op = "StopListening")
        => (out' = <<>> /\ UNCHANGED hookState)]_vars
  /\ [][(lastOp.op = "StopListening" /\ lastOp'.op = "StopListening")
        => (out' = <<>> /\ UNCHANGED hookState)]_vars

\* stopListening() has acted while not listening, with a session requested
\* from the recognizer that has not confirmed its start
C13_Witness ==
  /\ lastOp.op = "StopListening"
  /\ out = <<>>
  /\ ~isListening
  /\ rec = "requested"
  /\ ~recStopped

\* C14: stopSpeaking() called while not speaking makes no synthesizer
\* request and changes no state.
C14_StopSpeakingNoOp ==
  [][(~isSpeaking /\ lastOp'.op = "StopSpeaking")
     => (out' = <<>> /\ UNCHANGED hookState)]_vars

\* C15: startListening() issued while speaking first asks the synthesizer
\* to stop and leaves the speaking mode, then requests the permission.
C15_StartListeningStopsSpeech ==
  [][(isSpeaking /\ isSupported /\ lastOp'.op = "StartListening")
     => /\ ~isSpeaking'
        /\ Len(out') >= 2
        /\ out'[1].call = "synth.stop"
        /\ out'[Len(out')].call = "rec.requestPermissions"]_vars

\* C16: isListening changes from false to true only on a recognizer start
\* event, never inside startListening() or on another command or event.
C16_ListeningOnlyOnStart ==
  [][(~isListening /\ isListening') => lastOp'.op = "RecStart"]_vars

\* the recognizer has confirmed a session requested by startListening()
C16_Witness ==
  /\ lastOp.op = "RecStart"
  /\ isListening
  /\ rec = "running"

C18_TeardownStops ==
  [][(lastOp'.op = "Unmount")
     => /\ isListening => Called(out', "rec.stop")
        /\ isSpeaking => Called(out', "synth.stop")]_vars

\* C19: when a new listening session starts the transcript is empty, so
\* the text of an earlier session is not shown as belonging to it.
C19_TranscriptClearedOnStart ==
  [][(lastOp'.op = "RecStart") => transcript' = <<>>]_vars

\* C20: the transcript changes only on a result event, and not on one of
\* the session whose final result has already been delivered.
C20_CommittedTranscriptRetained ==
  [][(transcript' # transcript)
     => (lastOp'.op = "RecResult" /\ resultCalls = 0)]_vars

\* C21: every terminal outcome of an utterance (onDone, onStopped, onError,
\* a speak() or stop() promise that rejects) leaves isSpeaking false.
C21_SynthOutcomesAbsorbed ==
  [][(\/ lastOp'.op \in {"SynthOnDone", "SynthOnStopped", "SynthOnError"}
      \/ lastOp'.op = "Speak" /\ lastOp'.flag
      \/ lastOp'.op = "StopSettle" /\ ~lastOp'.flag)
     => ~isSpeaking']_vars

\* C22: the recognizer is started only by the continuation of a
\* startListening() command, once per command, and an utterance is handed
\* to the synthesizer only by a speak() command; no error handler, denial
\* or timer does either.
C22_NoAutomaticRetry ==
  /\ [][Called(out', "rec.start")
        => /\ lastOp'.op = "PermissionSettle"
           /\ lastOp'.kind = "resolved" /\ lastOp'.flag
           /\ permPending' = permPending - 1
           /\ CountCalls(out', "rec.start") = 1]_vars
  /\ [][Called(out', "synth.speak") => lastOp'.op = "Speak"]_vars
  /\ [][(lastOp'.op \in {"RecError", "SynthOnError", "TimerFire"})
        => (~DeviceCall(out') /\ permPending' = permPending)]_vars

\* the clear timer of a handled recognizer error has fired and nothing was
\* started: the session is closed and no command is outstanding
C22_Witness ==
  /\ lastOp.op = "TimerFire"
  /\ lastOp.flag
  /\ out = <<>>
  /\ rec = "off"
  /\ permPending = 0
  /\ utter = <<>>

\* C23: when stopListening() is called while startListening() waits for
\* the permission request, the recognizer is not started when the request
\* settles.
C23_StopCancelsPendingStart ==
  [][(/\ lastOp.op = "StopListening"
      /\ permPending = 1
      /\ lastOp'.op = "PermissionSettle")
     => ~Called(out', "rec.start")]_vars

\* C24: once stopListening() has been called on a session, no recognizer
\* event sets isListening to true while no startListening() is outstanding.
C24_NoLateListening ==
  [][(/\ recStopped
      /\ permPending = 0
      /\ ~isListening
      /\ lastOp'.op \in {"RecStart", "RecResult", "RecEnd", "RecError"})
     => ~isListening']_vars

\* C25: a done, stopped or error callback of an earlier utterance does not
\* set isSpeaking to false while the one newer utterance is in flight.
C25_StaleUtteranceCallbackIgnored ==
  [][(/\ lastOp'.op \in {"SynthOnDone", "SynthOnStopped", "SynthOnError"}
      /\ Len(Live(utter)) = 1
      /\ Len(Live(utter')) = 1
      /\ isSpeaking)
     => isSpeaking']_vars

\* C26: an end event that arrives while listening, with no final result
\* delivered in the session, sets isListening to false and does not call
\* onSpeechResult.
C26_EndWithoutResult ==
  [][(isListening /\ resultCalls = 0 /\ lastOp'.op = "RecEnd")
     => /\ ~isListening'
        /\ ~Called(out', "onSpeechResult")]_vars

\* a session in which only a partial result was heard has ended
C26_Witness ==
  /\ lastOp.op = "RecEnd"
  /\ ~isListening
  /\ HasText(transcript)
  /\ out = <<Eff("onSpeechEnd", <<>>)>>

\* C27: a result event that is not final, or whose text is blank, calls
\* nothing and leaves isListening and isSpeaking alone; it only sets the
\* transcript to the text of the event.
C27_PartialResultOnlyTranscript ==
  [][(/\ lastOp'.op = "RecResult"
      /\ ~lastOp'.flag \/ OnlyWhitespace(lastOp'.text))
     => /\ out' = <<>>
        /\ transcript' = lastOp'.text
        /\ UNCHANGED <<isListening, isSpeaking>>]_vars

\* a partial result with text has been handled
C27_Witness ==
  /\ lastOp.op = "RecResult"
  /\ ~lastOp.flag
  /\ HasText(lastOp.text)
  /\ transcript = lastOp.text
  /\ out = <<>>

\* C28: whenever speechError is true a clear timer is pending.
C28_ErrorHasPendingTimer == speechError => timers > 0

\* a second recognizer error arrived before the first one's timer fired
C28_Witness ==
  /\ speechError
  /\ timers = 2
  /\ lastOp.op = "RecError"

\* C29: startListening() called while listening asks the recognizer to
\* stop and sets isListening to false, then requests the permission; the
\* recognizer start is not part of that step.
C29_StartWhileListeningRestarts ==
  [][(isListening /\ lastOp'.op = "StartListening")
     => /\ ~isListening'
        /\ recStopped'
        /\ out' = <<Eff("rec.stop", <<>>),
                    Eff("rec.requestPermissions", <<>>)>>
        /\ permPending' = permPending + 1]_vars

\* startListening() has acted on a listening hook
C29_Witness ==
  /\ lastOp.op = "StartListening"
  /\ out = <<Eff("rec.stop", <<>>), Eff("rec.requestPermissions", <<>>)>>
  /\ ~isListening
  /\ recStopped
  /\ rec = "running"

\* C30: handleSpeechResult sends a query only for a transcript with text
\* and only while no query is in flight; at most one query is in flight;
\* a transcript that arrives while one is in flight appends no message and
\* sends nothing; when a query settles isLoading is false.
C30_OneQueryAtATime ==
  /\ [](queries <= 1)
  /\ [][(lastOp'.op = "HandleSpeechResult" /\ Called(out', "api.query"))
        => (HasText(lastOp'.text) /\ queries = 0 /\ ~isLoading)]_vars
  /\ [][(lastOp'.op = "HandleSpeechResult" /\ queries > 0)
        => (out' = <<>> /\ messages' = messages)]_vars
  /\ [][(lastOp'.op = "QuerySettle") => ~isLoading']_vars

====
